---- MODULE Spec2Model ----
(***************************************************************************)
(* SignedEthTxMiddleware (src/src/middleware/signed-eth-tx-middleware.ts). *)
(*                                                                         *)
(* Handle(txData) is an async method with two suspension points: the await *)
(* of signer.getAddress() (only when fromAddress is falsy) and the await   *)
(* of EthersSigner.signAsync(hash).  Every action below is one run of the  *)
(* method between two suspension points, so calls on one instance          *)
(* interleave exactly where the JavaScript event loop lets them.           *)
(*                                                                         *)
(* The protobuf messages, Address, soliditySha3, bytesToHex/hexToBytes,    *)
(* EthersSigner and the ethers utilities are imported by the file and not  *)
(* part of it; they are modelled symbolically from their documented        *)
(* behaviour (a hash is an injective constructor, a signature names the    *)
(* key and the digest it was made over).                                   *)
(***************************************************************************)
EXTENDS Integers, Sequences, FiniteSets, TLC

(* Number of Handle invocations in a run whose calls follow one another. *)
MaxCalls == 3

(* Number of Handle invocations in a run whose calls may overlap, or go to *)
(* either middleware.                                                      *)
MaxRacing == 2

Calls == 1..MaxCalls

(* Two middleware objects, constructed over the same signer. *)
Middlewares == {1, 2}

(* The middleware that the runs on a single middleware call. *)
This == 1

VARIABLES
    signer,             \* this.signer, per middleware
    applyEthChainName,  \* this.applyEthChainName, per middleware
    fromAddress,        \* this.fromAddress, per middleware (Undefined until set)
    pc,                 \* where each Handle call stands
    self,               \* the middleware each call was made on
    txData,             \* the argument of each call
    address,            \* what the awaited getAddress() resolved to in the call
    hashValues,         \* getHashedValues: the values handed to soliditySha3
    hash,               \* Handle: const hash
    sig,                \* Handle: const sig
    publicKey,          \* Handle: const publicKey
    signedTx,           \* the SignedTx whose serialization the call returned
    err,                \* the error the call's promise was rejected with
    signerLog           \* the signer operations the call invoked, in order

vars == <<signer, applyEthChainName, fromAddress, pc, self, txData, address,
          hashValues, hash, sig, publicKey, signedTx, err, signerLog>>

-----------------------------------------------------------------------------
(* Values *)

(* The value of a field that was declared and never assigned. *)
Undefined == "undefined"

(* JavaScript's !x for a string-or-undefined x. *)
Falsy(x) == x \in {Undefined, ""}

(* Signers: a wallet with one fixed key, a provider-backed signer whose    *)
(* selected account may change between requests, and a test double that    *)
(* reports an empty address and may hand back a truncated signature.       *)
Signers == {"wallet", "provider", "stub"}

Accounts(s) ==
    CASE s = "wallet"   -> {"0xAA01"}
      [] s = "provider" -> {"0xAA01", "0xAA02"}
      [] s = "stub"     -> {""}

Addresses == UNION {Accounts(s) : s \in Signers}

PublicKeyOf(a) ==
    CASE a = "0xAA01" -> "0x04B1"
      [] a = "0xAA02" -> "0x04B2"
      [] OTHER        -> "0x04B3"

(* The public key recovery yields for a digest the signature was not made over. *)
UnrelatedKey == "0x04FF"

NoHash == [alg |-> "none", of |-> <<>>]
NoSignedTx == [inner |-> <<>>, signature |-> <<>>, publicKey |-> <<>>, chainName |-> ""]

-----------------------------------------------------------------------------
(* crypto-utils *)

HexDigits == <<"0", "1", "2", "3", "4", "5", "6", "7",
               "8", "9", "A", "B", "C", "D", "E", "F">>

HexByte(b) == HexDigits[(b \div 16) + 1] \o HexDigits[(b % 16) + 1]

RECURSIVE bytesToHex(_)
bytesToHex(bytes) ==
    IF bytes = <<>> THEN "" ELSE HexByte(Head(bytes)) \o bytesToHex(Tail(bytes))

(* hexToBytes drops a leading 0x and reads two digits per byte. *)
KeyBytes == {<<4, 177>>, <<4, 178>>, <<4, 179>>, <<4, 255>>}
hexToBytes(hex) ==
    CHOOSE bytes \in KeyBytes : hex \in {bytesToHex(bytes), "0x" \o bytesToHex(bytes)}

(* Number.prototype.toString(): decimal digits, most significant first. *)
RECURSIVE toString(_)
toString(n) ==
    IF n < 10 THEN HexDigits[n + 1] ELSE toString(n \div 10) \o HexDigits[(n % 10) + 1]

-----------------------------------------------------------------------------
(* The three nested messages.  Wire form used here: a NonceTx is its       *)
(* sequence byte followed by its inner bytes, a Transaction is its id byte *)
(* followed by its data, a MessageTx is the local byte of its `to`         *)
(* address; a message cut short does not decode.                           *)

Sequences == {7, 8}
TxId == {2}
Destinations == {187, 204}

Envelopes == {<<s, i, t>> : s \in Sequences, i \in TxId, t \in Destinations}

(* Well-formed envelopes and every truncation of them, the empty one included. *)
Inputs == {SubSeq(e, 1, n) : e \in Envelopes, n \in 0..3}

NonceTx_deserializeBinary(bytes) ==
    IF bytes = <<>> THEN [ok |-> FALSE, sequence |-> 0, inner |-> <<>>]
    ELSE [ok |-> TRUE, sequence |-> Head(bytes), inner |-> Tail(bytes)]

Transaction_deserializeBinary(bytes) ==
    IF bytes = <<>> THEN [ok |-> FALSE, id |-> 0, data |-> <<>>]
    ELSE [ok |-> TRUE, id |-> Head(bytes), data |-> Tail(bytes)]

MessageTx_deserializeBinary(bytes) ==
    IF bytes = <<>> THEN [ok |-> FALSE, to |-> <<>>]
    ELSE [ok |-> TRUE, to |-> <<Head(bytes)>>]

(* Address.UnmarshalPB(to).local.toString() *)
LocalAddressToString(to) == "0x" \o bytesToHex(to)

-----------------------------------------------------------------------------
(* solidity-helpers and ethers utilities *)

soliditySha3(values) == [alg |-> "soliditySha3", of |-> values]

(* ethers.utils.hashMessage: the digest of the personal-message prefix and the message. *)
hashMessage(message) == [alg |-> "hashMessage", of |-> <<message>>]

(* The leading byte of the signature EthersSigner.signAsync resolves to. *)
SigLeadByte == 1

(* What signAsync(hash) may resolve to with signer s: signMessage signs the *)
(* prefixed digest with the key of one of the signer's accounts.            *)
Signatures(s, digest) ==
    {<<SigLeadByte, [by |-> a, over |-> hashMessage(digest)]>> : a \in Accounts(s)}
    \cup (IF s = "stub" THEN {<<SigLeadByte>>} ELSE {})

recoverPublicKeyThrows(signature) == Len(signature) # 1

recoverPublicKey(digest, signature) ==
    IF signature[1].over = digest THEN PublicKeyOf(signature[1].by) ELSE UnrelatedKey

-----------------------------------------------------------------------------
(* getHashedValues *)

(* One of the three deserializations, or the address unmarshalling, throws. *)
getHashedValuesThrows(data) ==
    LET nonce == NonceTx_deserializeBinary(data)
        transaction == Transaction_deserializeBinary(nonce.inner)
        message == MessageTx_deserializeBinary(transaction.data)
    IN  ~nonce.ok \/ ~transaction.ok \/ ~message.ok

(* Variant: the sender and destination entries change places. *)
getHashedValues_Swapped(from, data) ==
    LET nonce == NonceTx_deserializeBinary(data)
        transaction == Transaction_deserializeBinary(nonce.inner)
        message == MessageTx_deserializeBinary(transaction.data)
        toAddress == LocalAddressToString(message.to)
        sequence == toString(nonce.sequence)
    IN  << [type |-> "address", value |-> toAddress],
           [type |-> "address", value |-> from],
           [type |-> "uint64",  value |-> sequence],
           [type |-> "bytes",   value |-> bytesToHex(data)] >>

(* Variant: the nonce is counted from the calls made so far instead of     *)
(* being read from the NonceTx.                                            *)
getHashedValues_CallCount(from, data) ==
    LET nonce == NonceTx_deserializeBinary(data)
        transaction == Transaction_deserializeBinary(nonce.inner)
        message == MessageTx_deserializeBinary(transaction.data)
        toAddress == LocalAddressToString(message.to)
        sequence == toString(Cardinality({c \in Calls : pc[c] # "idle"}))
    IN  << [type |-> "address", value |-> from],
           [type |-> "address", value |-> toAddress],
           [type |-> "uint64",  value |-> sequence],
           [type |-> "bytes",   value |-> bytesToHex(data)] >>

(* const hashValues = [...], with this.fromAddress read as `from`. *)
getHashedValues(from, data) ==
    LET nonce == NonceTx_deserializeBinary(data)
        transaction == Transaction_deserializeBinary(nonce.inner)
        message == MessageTx_deserializeBinary(transaction.data)
        toAddress == LocalAddressToString(message.to)
        sequence == toString(nonce.sequence)
    IN  << [type |-> "address", value |-> from],
           [type |-> "address", value |-> toAddress],
           [type |-> "uint64",  value |-> sequence],
           [type |-> "bytes",   value |-> bytesToHex(data)] >>

-----------------------------------------------------------------------------
(* The state after construction: two middlewares over one signer, one      *)
(* without and one with the chain name; no Handle call made yet.           *)

Init ==
    /\ \E s \in Signers : signer = [m \in Middlewares |-> s]
    /\ \E b \in BOOLEAN : applyEthChainName = [m \in Middlewares |-> IF m = 1 THEN b ELSE ~b]
    /\ fromAddress = [m \in Middlewares |-> Undefined]
    /\ pc = [c \in Calls |-> "idle"]
    /\ self = [c \in Calls |-> 1]
    /\ txData = [c \in Calls |-> <<>>]
    /\ address = [c \in Calls |-> Undefined]
    /\ hashValues = [c \in Calls |-> <<>>]
    /\ hash = [c \in Calls |-> NoHash]
    /\ sig = [c \in Calls |-> <<>>]
    /\ publicKey = [c \in Calls |-> ""]
    /\ signedTx = [c \in Calls |-> NoSignedTx]
    /\ err = [c \in Calls |-> ""]
    /\ signerLog = [c \in Calls |-> <<>>]

Invoked(op, args) == [op |-> op, args |-> args]

(* Variant: the address is fetched on every call. *)
NeedsAddress_Always(m) == TRUE

(* Variant: a call that finds another call's fetch pending skips its own   *)
(* and does not wait for the pending one.                                  *)
NeedsAddress_UnlessPending(m) ==
    /\ Falsy(fromAddress[m])
    /\ ~\E d \in Calls : self[d] = m /\ pc[d] = "awaitGetAddress"

(* Line 71: if (!this.fromAddress) *)
NeedsAddress(m) == Falsy(fromAddress[m])

(* Variant: recovery over the digest as it was handed to signAsync. *)
RecoveryDigest_Raw(h) == h

(* Line 87: the digest handed to recoverPublicKey. *)
RecoveryDigest(h) == hashMessage(h)

(* Variant: the NonceTx's inner bytes are wrapped instead of the input. *)
BuildSignedTx_InnerOfNonce(m, data, s, key) ==
    [inner |-> NonceTx_deserializeBinary(data).inner,
     signature |-> s,
     publicKey |-> hexToBytes(key),
     chainName |-> IF applyEthChainName[m] THEN "eth" ELSE ""]

(* Variant: the chain name is set whatever the flag says. *)
BuildSignedTx_AlwaysChainName(m, data, s, key) ==
    [inner |-> data,
     signature |-> s,
     publicKey |-> hexToBytes(key),
     chainName |-> "eth"]

(* Lines 93-100: the SignedTx built from the call's txData, sig and publicKey. *)
BuildSignedTx(m, data, s, key) ==
    [inner |-> data,
     signature |-> s,
     publicKey |-> hexToBytes(key),
     chainName |-> IF applyEthChainName[m] THEN "eth" ELSE ""]

(* Variant: signAsync is invoked before the input is found not to decode. *)
HashAndSign_SignAnyway(c, m, data) ==
    IF getHashedValuesThrows(data)
    THEN /\ pc' = [pc EXCEPT ![c] = "rejected"]
         /\ err' = [err EXCEPT ![c] = "DecodeError"]
         /\ signerLog' = [signerLog EXCEPT
                ![c] = Append(signerLog[c], Invoked("sign", <<NoHash>>))]
         /\ UNCHANGED <<hashValues, hash>>
    ELSE LET values == getHashedValues(fromAddress'[m], data)
         IN  /\ hashValues' = [hashValues EXCEPT ![c] = values]
             /\ hash' = [hash EXCEPT ![c] = soliditySha3(values)]
             /\ signerLog' = [signerLog EXCEPT
                    ![c] = Append(signerLog[c], Invoked("sign", <<soliditySha3(values)>>))]
             /\ pc' = [pc EXCEPT ![c] = "awaitSign"]
             /\ UNCHANGED err

(* Lines 76-81, run without suspension: getHashedValues(txData), then      *)
(* signAsync(hash) up to its await.  A throw in getHashedValues rejects    *)
(* the call's promise.  Reads this.fromAddress as it is after the step.    *)
HashAndSign(c, m, data) ==
    IF getHashedValuesThrows(data)
    THEN /\ pc' = [pc EXCEPT ![c] = "rejected"]
         /\ err' = [err EXCEPT ![c] = "DecodeError"]
         /\ UNCHANGED <<hashValues, hash, signerLog>>
    ELSE LET values == getHashedValues(fromAddress'[m], data)
         IN  /\ hashValues' = [hashValues EXCEPT ![c] = values]
             /\ hash' = [hash EXCEPT ![c] = soliditySha3(values)]
             /\ signerLog' = [signerLog EXCEPT
                    ![c] = Append(signerLog[c], Invoked("sign", <<soliditySha3(values)>>))]
             /\ pc' = [pc EXCEPT ![c] = "awaitSign"]
             /\ UNCHANGED err

(* Handle(txData), from its entry to its first suspension or rejection.    *)
(* Calls are numbered in the order they are made.                          *)
Handle(c, m, data) ==
    /\ pc[c] = "idle"
    /\ IF c = 1 THEN TRUE ELSE pc[c - 1] # "idle"
    /\ self' = [self EXCEPT ![c] = m]
    /\ txData' = [txData EXCEPT ![c] = data]
    /\ UNCHANGED <<signer, applyEthChainName, fromAddress, address,
                   sig, publicKey, signedTx>>
    /\ IF NeedsAddress(m)
       THEN /\ signerLog' = [signerLog EXCEPT
                   ![c] = Append(signerLog[c], Invoked("getAddress", <<>>))]
            /\ pc' = [pc EXCEPT ![c] = "awaitGetAddress"]
            /\ UNCHANGED <<hashValues, hash, err>>
       ELSE HashAndSign(c, m, data)

(* Variant: the resolved address is not stored in this.fromAddress. *)
GetAddressResolved_NoCache(c, a) ==
    /\ pc[c] = "awaitGetAddress"
    /\ a \in Accounts(signer[self[c]])
    /\ address' = [address EXCEPT ![c] = a]
    /\ fromAddress' = fromAddress
    /\ HashAndSign(c, self[c], txData[c])
    /\ UNCHANGED <<signer, applyEthChainName, self, txData, sig, publicKey, signedTx>>

(* signer.getAddress() resolves with a: line 73 assigns it, lines 76-81 follow. *)
GetAddressResolved(c, a) ==
    /\ pc[c] = "awaitGetAddress"
    /\ a \in Accounts(signer[self[c]])
    /\ address' = [address EXCEPT ![c] = a]
    /\ fromAddress' = [fromAddress EXCEPT ![self[c]] = a]
    /\ HashAndSign(c, self[c], txData[c])
    /\ UNCHANGED <<signer, applyEthChainName, self, txData, sig, publicKey, signedTx>>

(* signer.getAddress() rejects: the await throws and Handle rejects with it. *)
GetAddressRejected(c) ==
    /\ pc[c] = "awaitGetAddress"
    /\ pc' = [pc EXCEPT ![c] = "rejected"]
    /\ err' = [err EXCEPT ![c] = "GetAddressError"]
    /\ UNCHANGED <<signer, applyEthChainName, fromAddress, self, txData, address,
                   hashValues, hash, sig, publicKey, signedTx, signerLog>>

(* signAsync(hash) resolves with s: lines 83-102, run without suspension. *)
SignResolved(c, s) ==
    /\ pc[c] = "awaitSign"
    /\ s \in Signatures(signer[self[c]], hash[c])
    /\ sig' = [sig EXCEPT ![c] = s]
    /\ LET digest == RecoveryDigest(hash[c])
           stripped == Tail(s)
       IN  /\ signerLog' = [signerLog EXCEPT
                  ![c] = Append(signerLog[c], Invoked("recoverPublicKey", <<digest, stripped>>))]
           /\ IF recoverPublicKeyThrows(stripped)
              THEN /\ pc' = [pc EXCEPT ![c] = "rejected"]
                   /\ err' = [err EXCEPT ![c] = "RecoveryError"]
                   /\ UNCHANGED <<publicKey, signedTx>>
              ELSE LET key == recoverPublicKey(digest, stripped)
                   IN  /\ publicKey' = [publicKey EXCEPT ![c] = key]
                       /\ signedTx' = [signedTx EXCEPT
                              ![c] = BuildSignedTx(self[c], txData[c], s, key)]
                       /\ pc' = [pc EXCEPT ![c] = "returned"]
                       /\ UNCHANGED err
    /\ UNCHANGED <<signer, applyEthChainName, fromAddress, self, txData, address,
                   hashValues, hash>>

(* Variant: a rejected signAsync is tried once more before Handle gives up. *)
SignRejected_Retry(c) ==
    /\ pc[c] = "awaitSign"
    /\ IF Cardinality({i \in DOMAIN signerLog[c] : signerLog[c][i].op = "sign"}) < 2
       THEN /\ signerLog' = [signerLog EXCEPT
                   ![c] = Append(signerLog[c], Invoked("sign", <<hash[c]>>))]
            /\ UNCHANGED <<pc, err>>
       ELSE /\ pc' = [pc EXCEPT ![c] = "rejected"]
            /\ err' = [err EXCEPT ![c] = "SigningError"]
            /\ UNCHANGED signerLog
    /\ UNCHANGED <<signer, applyEthChainName, fromAddress, self, txData, address,
                   hashValues, hash, sig, publicKey, signedTx>>

(* signAsync(hash) rejects (signer error, user cancellation): Handle rejects with it. *)
SignRejected(c) ==
    /\ pc[c] = "awaitSign"
    /\ pc' = [pc EXCEPT ![c] = "rejected"]
    /\ err' = [err EXCEPT ![c] = "SigningError"]
    /\ UNCHANGED <<signer, applyEthChainName, fromAddress, self, txData, address,
                   hashValues, hash, sig, publicKey, signedTx, signerLog>>

(* Some call is between its entry and its settlement. *)
InFlight == \E c \in Calls : pc[c] \in {"awaitGetAddress", "awaitSign"}

(* A Handle call made only once every earlier call has settled. *)
HandleSeq(c, m, data) == ~InFlight /\ Handle(c, m, data)

Settle ==
    \E c \in Calls :
        \/ \E a \in Addresses : GetAddressResolved(c, a)
        \/ GetAddressRejected(c)
        \/ \E s \in Signatures(signer[self[c]], hash[c]) : SignResolved(c, s)
        \/ SignRejected(c)

(* One middleware, calls that may overlap. *)
Next ==
    \/ \E c \in 1..MaxRacing, data \in Inputs : Handle(c, This, data)
    \/ Settle

Spec == Init /\ [][Next]_vars

(* One middleware, each call made after the previous one settled. *)
NextSeq ==
    \/ \E c \in Calls, data \in Inputs : HandleSeq(c, This, data)
    \/ Settle

SpecSeq == Init /\ [][NextSeq]_vars

(* Both middlewares, each call made after the previous one settled. *)
NextPair ==
    \/ \E c \in 1..MaxRacing, m \in Middlewares, data \in Inputs : HandleSeq(c, m, data)
    \/ Settle

SpecPair == Init /\ [][NextPair]_vars

-----------------------------------------------------------------------------
(* Properties *)

(* How many times call c invoked the signer operation op. *)
Invocations(c, op) ==
    Cardinality({i \in DOMAIN signerLog[c] : signerLog[c][i].op = op})

Hashed(c) == hashValues[c] # <<>>

(* C1, as stated: a Handle call whose input fails to decode is rejected    *)
(* with a decode error, returns no envelope, and invoked no operation of   *)
(* the signer, getAddress included.                                        *)
C1_DecodeFailureNoSignerCall ==
    \A c \in Calls :
        err[c] = "DecodeError" =>
            /\ pc[c] = "rejected"
            /\ signedTx[c] = NoSignedTx
            /\ signerLog[c] = <<>>

(* C1, amended: a Handle call whose input fails to decode is rejected with *)
(* a decode error, returns no envelope, and invoked neither sign nor       *)
(* recoverPublicKey; the one signer operation it may have invoked is a     *)
(* single getAddress, awaited before the input is decoded.                 *)
C1_DecodeFailureNoSignNoRecover ==
    \A c \in Calls :
        err[c] = "DecodeError" =>
            /\ pc[c] = "rejected"
            /\ getHashedValuesThrows(txData[c])
            /\ signedTx[c] = NoSignedTx
            /\ ~Hashed(c)
            /\ Invocations(c, "sign") = 0
            /\ Invocations(c, "recoverPublicKey") = 0
            /\ signerLog[c] = IF address[c] = Undefined
                              THEN <<>> ELSE <<Invoked("getAddress", <<>>)>>

(* A first call on a fresh middleware, with a truncated input, that was    *)
(* rejected with the decode error after its getAddress resolved.           *)
C1_Witness ==
    /\ err[1] = "DecodeError"
    /\ txData[1] = <<7, 2>>
    /\ Invocations(1, "getAddress") = 1

(* C2: every call that returns wraps its txData unchanged: the inner field *)
(* of the returned SignedTx is the input, byte for byte.                   *)
C2_InnerIsInput ==
    \A c \in Calls :
        pc[c] = "returned" => signedTx[c].inner = txData[c]

C2_Witness ==
    \E c \in Calls : pc[c] = "returned" /\ signedTx[c].inner = <<8, 2, 204>>

(* C3, as stated: over sequential calls on one middleware getAddress is    *)
(* invoked at most once in total.                                          *)
C3_GetAddressAtMostOnce ==
    Cardinality({c \in Calls : Invocations(c, "getAddress") >= 1}) <= 1

(* C3, amended: over sequential calls on one middleware, no call invokes   *)
(* getAddress more than once, at most one invocation ever resolves with a  *)
(* non-empty address, and once one has, no later call invokes getAddress:  *)
(* every later call hashes with that cached address.  (A call that starts  *)
(* while nothing non-empty is cached, because every earlier getAddress was *)
(* rejected or resolved empty, does invoke it again.)                      *)
C3_NoFetchOnceCached ==
    /\ \A c \in Calls : Invocations(c, "getAddress") <= 1
    /\ Cardinality({c \in Calls : ~Falsy(address[c])}) <= 1
    /\ \A c, d \in Calls :
        (c < d /\ ~Falsy(address[c])) =>
            /\ fromAddress[This] = address[c]
            /\ Invocations(d, "getAddress") = 0
            /\ Hashed(d) => hashValues[d][1].value = address[c]

(* The first call's getAddress was rejected, the second call's resolved,   *)
(* and the third call hashed without invoking it.                          *)
C3_Witness ==
    /\ err[1] = "GetAddressError"
    /\ ~Falsy(address[2])
    /\ Hashed(3)
    /\ Invocations(3, "getAddress") = 0

(* getAddress of signer s always resolves to the same address. *)
DeterministicGetAddress(s) == Cardinality(Accounts(s)) = 1

(* C4: with a signer whose getAddress always resolves to the same address  *)
(* A, overlapping calls on one middleware leave the cached sender address  *)
(* either unset or A, and every digest computed is over a tuple whose      *)
(* element 0 is A.                                                         *)
C4_RaceBenign ==
    DeterministicGetAddress(signer[This]) =>
        LET A == CHOOSE a \in Accounts(signer[This]) : TRUE
        IN  /\ fromAddress[This] \in {Undefined, A}
            /\ \A c \in Calls :
                Hashed(c) =>
                    /\ hashValues[c][1].value = A
                    /\ hash[c] = soliditySha3(hashValues[c])

(* Two overlapping calls both invoked getAddress and both went on to hash. *)
C4_Witness ==
    /\ DeterministicGetAddress(signer[This])
    /\ \A c \in {1, 2} :
        /\ Invocations(c, "getAddress") = 1
        /\ Hashed(c)

(* C5: a call whose signAsync was rejected is rejected with that error,    *)
(* returned no envelope, invoked sign exactly once and never invoked       *)
(* recoverPublicKey.                                                       *)
C5_SignFailureEmitsNothing ==
    \A c \in Calls :
        err[c] = "SigningError" =>
            /\ pc[c] = "rejected"
            /\ signedTx[c] = NoSignedTx
            /\ sig[c] = <<>>
            /\ publicKey[c] = ""
            /\ Invocations(c, "sign") = 1
            /\ Invocations(c, "recoverPublicKey") = 0

C5_Witness ==
    \E c \in Calls : err[c] = "SigningError" /\ Invocations(c, "sign") = 1

(* C6: a returned envelope carries the chain name 'eth' exactly when the   *)
(* middleware was built with applyEthChainName; and of two calls with the  *)
(* same input, digest and signature, one on a middleware without the flag  *)
(* and one on a middleware with it, the envelopes differ in the chain name *)
(* alone.                                                                  *)
C6_ChainTagGating ==
    /\ \A c \in Calls :
        pc[c] = "returned" =>
            signedTx[c].chainName = IF applyEthChainName[self[c]] THEN "eth" ELSE ""
    /\ \A c, d \in Calls :
        ( /\ pc[c] = "returned" /\ pc[d] = "returned"
          /\ txData[c] = txData[d] /\ hash[c] = hash[d] /\ sig[c] = sig[d]
          /\ ~applyEthChainName[self[c]] /\ applyEthChainName[self[d]] ) =>
            /\ signedTx[c].chainName = ""
            /\ signedTx[d].chainName = "eth"
            /\ signedTx[c].inner = signedTx[d].inner
            /\ signedTx[c].signature = signedTx[d].signature
            /\ signedTx[c].publicKey = signedTx[d].publicKey

(* The same input signed through both middlewares. *)
C6_Witness ==
    \E c, d \in Calls :
        /\ pc[c] = "returned" /\ pc[d] = "returned"
        /\ txData[c] = txData[d] /\ hash[c] = hash[d] /\ sig[c] = sig[d]
        /\ ~applyEthChainName[self[c]] /\ applyEthChainName[self[d]]

(* C7: whenever a call computes its hash values, they are the 4-tuple      *)
(* (address, the sender address cached at that moment), (address, the      *)
(* destination decoded from the input), (uint64, the input's sequence in   *)
(* decimal), (bytes, the hex of the whole input), in that order, and the   *)
(* digest is taken over exactly that tuple.                                *)
C7_CanonicalHashInput ==
    [][\A c \in Calls :
        (~Hashed(c) /\ Hashed(c)') =>
            /\ hashValues'[c] =
                << [type |-> "address", value |-> fromAddress'[self'[c]]],
                   [type |-> "address", value |-> "0x" \o bytesToHex(<<txData'[c][3]>>)],
                   [type |-> "uint64",  value |-> toString(txData'[c][1])],
                   [type |-> "bytes",   value |-> bytesToHex(txData'[c])] >>
            /\ hash'[c] = soliditySha3(hashValues'[c])]_vars

(* Sender 0xAA01, destination 0xBB, sequence 7. *)
C7_Witness ==
    \E c \in Calls :
        /\ txData[c] = <<7, 2, 187>>
        /\ hashValues[c] =
            << [type |-> "address", value |-> "0xAA01"],
               [type |-> "address", value |-> "0xBB"],
               [type |-> "uint64",  value |-> "7"],
               [type |-> "bytes",   value |-> "0702BB"] >>

(* C8: with a signer whose getAddress is deterministic, any two calls on   *)
(* the same middleware with the same txData compute the same hash values   *)
(* and the same digest, whatever calls were made before or between them.   *)
C8_SameInputSameDigest ==
    DeterministicGetAddress(signer[This]) =>
        \A c, d \in Calls :
            (self[c] = self[d] /\ txData[c] = txData[d] /\ Hashed(c) /\ Hashed(d)) =>
                /\ hashValues[c] = hashValues[d]
                /\ hash[c] = hash[d]

(* The first and the third call hash the same input, the first after       *)
(* fetching the address and the third from the cache, with a call on       *)
(* another input, rejected, between them.                                  *)
C8_Witness ==
    /\ DeterministicGetAddress(signer[This])
    /\ txData[1] = txData[3] /\ Hashed(1) /\ Hashed(3)
    /\ Invocations(1, "getAddress") = 1 /\ Invocations(3, "getAddress") = 0
    /\ txData[2] # txData[1] /\ pc[2] = "rejected"

(* C9: no step of any call changes the signer reference or the chain-name  *)
(* flag of a middleware, and once a call has returned, the sender address  *)
(* of its middleware is cached.                                            *)
C9_OnlyCacheChanges ==
    /\ [][signer' = signer /\ applyEthChainName' = applyEthChainName]_vars
    /\ [](\A c \in Calls : pc[c] = "returned" => fromAddress[self[c]] # Undefined)

(* One call returned and another was rejected. *)
C9_Witness ==
    /\ \E c \in Calls : pc[c] = "returned" /\ fromAddress[self[c]] # Undefined
    /\ \E c \in Calls : pc[c] = "rejected"

(* C10: in every call that returns, sign was given the raw digest, then    *)
(* recoverPublicKey was given the message-prefixed hash of that digest and *)
(* the signature without its leading byte; the envelope carries the whole  *)
(* signature and the bytes of the key that recovery returned, which is the *)
(* key of the account that signed.                                         *)
C10_SignRecoverAsymmetry ==
    \A c \in Calls :
        pc[c] = "returned" =>
            LET n == Len(signerLog[c])
            IN  /\ n >= 2
                /\ signerLog[c][n - 1] = Invoked("sign", <<hash[c]>>)
                /\ signerLog[c][n] =
                       Invoked("recoverPublicKey", <<hashMessage(hash[c]), Tail(sig[c])>>)
                /\ Invocations(c, "sign") = 1
                /\ Invocations(c, "recoverPublicKey") = 1
                /\ sig[c][1] = SigLeadByte
                /\ signedTx[c].signature = sig[c]
                /\ publicKey[c] = PublicKeyOf(sig[c][2].by)
                /\ signedTx[c].publicKey = hexToBytes(publicKey[c])

C10_Witness ==
    \E c \in Calls :
        /\ pc[c] = "returned"
        /\ signedTx[c].signature = sig[c] /\ Len(sig[c]) = 2
        /\ signedTx[c].publicKey = <<4, 178>>

====
